---------------------------- MODULE Spec2Model ----------------------------
(***************************************************************************)
(* A model of the deep-research orchestrator.                              *)
(*                                                                         *)
(* Two implementations of the traversal live in the repository:            *)
(*   "class"  : class DeepResearch (conductResearch / deepResearch /       *)
(*              searchAndProcess), src/common/ai/tools/SearchWebTool.ts    *)
(*   "script" : the module-level functions of src/index.ts                 *)
(* and the tool wrapper (BaseAITool, SearchWebTool, SearchResultEvalTool)  *)
(* they both drive.  The variable impl says which one a behaviour runs.    *)
(*                                                                         *)
(* Conventions.                                                            *)
(*  - A string is a sequence of tokens; "" is << >>.                       *)
(*  - An optional value is a sequence of length <= 1: << >> is             *)
(*    undefined/null, <<v>> is the value v.                                *)
(*  - One step of the model runs the JavaScript from the resumption of an  *)
(*    await to the next await (or to the end of the outermost call).       *)
(*  - The external capabilities (completion, search, the agent loop of     *)
(*    generateText) are the environment: their answers are chosen with \E. *)
(*    A tool whose execute throws makes generateText reject (the tool      *)
(*    error is not fed back to the agent).  One agent step issues one tool *)
(*    call.                                                                *)
(*  - The prologue of a deepResearch call (up to its first await or its    *)
(*    return) is a step of its own.                                        *)
(*  - Inside searchAndProcess nothing but the tool itself refers to the    *)
(*    two tools it builds, so there a tool invocation runs in one step up  *)
(*    to the capability it awaits.  In mode "tool" an evaluation tool is   *)
(*    run await by await, with the setters of BaseAITool called between.   *)
(*  - Spec has one top-level call at a time.  SpecClient is the class with *)
(*    a caller that calls conductResearch again while a call is suspended  *)
(*    at a capability, or reads getResearchData().  A capability answers   *)
(*    in a turn of the event loop of its own, so a call that is not        *)
(*    suspended runs to its next await before another call moves.          *)
(*  - A Research object owns its four lists (the code never assigns a list *)
(*    of the class's accumulator, it only pushes); the copy getResearchData*)
(*    makes shares them, and is a query plus the id of that object.        *)
(***************************************************************************)
EXTENDS Integers, Sequences, FiniteSets, TLC

\* ------------------------------------------------------------------ bounds
MaxDepth == 2      \* the largest depth argument of a top-level call
MaxSearch == 2     \* calls of the search capability in one behaviour

\* ------------------------------------------------------- program constants
DefaultDepth == 2
DefaultBreadth == 2
SchemaMinQueries == 1
SchemaMaxQueries == 5
ClassMaxSteps == 10
ScriptMaxSteps == 5
NumResults == 1

VARIABLES
  mode,      \* "single" | "twice" : one top-level call, or two in succession;
             \* "overlap" : a second call is made while the first is
             \* suspended; "observe" : the caller reads getResearchData();
             \* "budget" : one call of depth 1 in which the agent may search
             \* as often as its step budget allows (the searches beyond
             \* MaxSearch documents return nothing);
             \* "tool" : an evaluation tool of its own is configured and run
  impl,      \* "class" | "script" : which implementation runs
  heap,      \* the Research objects ever allocated, by object id (1..Len)
  acc,       \* this.accumulatedResearch / const accumulatedResearch : an id
  runs,      \* run id -> the top-level call: its arguments, status, result
  stack,     \* run id -> its deepResearch frames, innermost last
  nSearch,   \* calls of the search capability so far
  web,       \* the URLs of the documents search has returned so far
  hist,      \* run id -> the run's history: the query lists generated (gen),
             \* per searchAndProcess call its query (retq) and the results
             \* it returned (ret), the learnings extracted (learn) and
             \* what generateLearnings was called with for each (learnt), the
             \* frames entered per nesting level (frames)
  bench,     \* mode "tool": the tool's fields (tool), where its execute
             \* stands (pc), the context it resolved (ctx), what it has
             \* called so far (log), how it ended (out)
  snap       \* the value a caller got from getResearchData(), if it asked

pipeVars == <<mode, impl, heap, acc, runs, stack, nSearch, web, hist, snap>>
vars == <<mode, impl, heap, acc, runs, stack, nSearch, web, hist, bench, snap>>

\* ------------------------------------------------------------------ values
None == << >>
Some(v) == <<v>>

Max(a, b) == IF a > b THEN a ELSE b

RunIds == {1, 2}
Impls == {"class", "script"}

\* top-level prompts: the empty string and a one-token topic
Prompts == {<< >>, <<"topic">>}
DepthArgs ==
  IF mode = "single" THEN {None} \cup {Some(d) : d \in (0 - 1)..MaxDepth}
  ELSE IF mode = "budget" THEN {Some(1)}
  ELSE {Some(0), Some(1)}
BreadthArgs == IF mode = "single" THEN {None, Some(1), Some(3)} ELSE {None}

LearningPool == {[learning |-> "L1", followUpQuestions |-> <<"f1">>]}

\* The code never inspects a query string (it only passes it on), so the
\* generated strings are named by the generation call of the run (g) and
\* their position in the list it returned (i).
QueryName(g, i) == <<"q", g, i>>

\* z.array(z.string()).min(1).max(5): the lists the g-th generateObject
\* call may return, one per admissible length
GenLengths == {n \in {1, 2} : SchemaMinQueries <= n /\ n <= SchemaMaxQueries}
QueryLists(g) == {[i \in 1..n |-> QueryName(g, i)] : n \in GenLengths}

\* The code never inspects a URL either; only the classification compares
\* URLs.  A returned document has a URL seen before or the next new one.
UrlName(k) == <<"u", k>>
SeenUrls(w) == {w[i] : i \in 1..Len(w)}
NextUrls(w) == SeenUrls(w) \cup {UrlName(Cardinality(SeenUrls(w)) + 1)}

\* what searchWeb(query) may return: at most numResults = 1 documents, each
\* a fresh object (oid)
SearchAnswers(w) ==
  {<< >>} \cup
  (IF NumResults >= 1 THEN {<<[url |-> u, oid |-> Len(w) + 1]>> : u \in NextUrls(w)}
   ELSE {})

\* -------------------------------------------------------------- accumulator
EmptyResearch ==
  [query |-> None, queries |-> << >>, searchResults |-> << >>,
   learnings |-> << >>, completedQueries |-> << >>]

\* !x for x : string | undefined
Falsy(q) == q = None \/ q[1] = << >>

\* depth ?? this.defaultDepth
Nullish(x, dflt) == IF x = None THEN dflt ELSE x[1]

\* a faulty variant of HalveBreadth below (rounds down)
HalveBreadthFloor(b) == b \div 2

\* Math.ceil(breadth / 2)
HalveBreadth(b) == (b + 1) \div 2

\* a faulty variant of the base case below (depth 0 recurses)
BaseCaseOff(depth) == depth < 0

\* the base case of the recursion: if (depth <= 0) return
BaseCase(depth) == depth <= 0

\* a faulty variant of the child depth below (no decrement)
ChildDepthSame(depth) == depth

\* the depth handed to a recursive call: depth - 1
ChildDepth(depth) == depth - 1

\* the composite follow-up prompt (a template string, never empty)
FollowUpQuery(prompt, completed, followUps) ==
  <<"Overall research goal: ">> \o prompt \o
  <<"Previous search queries: ">> \o completed \o
  <<"Follow-up questions: ">> \o followUps

maxSteps == IF impl = "class" THEN ClassMaxSteps ELSE ScriptMaxSteps

\* ------------------------------------------------------------------ frames
NoInv == [tool |-> "none", ctx |-> None, log |-> << >>]

NewFrame(prompt, depth, breadth) ==
  [prompt |-> prompt, depth |-> depth, breadth |-> breadth, pc |-> "entry",
   queries |-> << >>, qi |-> 0, results |-> << >>, ri |-> 0,
   pending |-> << >>, final |-> << >>, steps |-> 0, inv |-> NoInv]

EmptyHist == [gen |-> << >>, ret |-> << >>, retq |-> << >>, learn |-> << >>,
              learnt |-> << >>, frames |-> << >>]

NoRun == [status |-> "idle", prompt |-> << >>, depth |-> 0, breadth |-> 0,
          ret |-> 0, error |-> "none"]

Top(r) == stack[r][Len(stack[r])]
Running(r) == runs[r].status = "running"
At(r, pc) == Running(r) /\ stack[r] # << >> /\ Top(r).pc = pc

SetTop(r, f) == [stack EXCEPT ![r] = [@ EXCEPT ![Len(@)] = f]]

\* a faulty variant of the query loop below (every other query is skipped)
NextQuerySkips(f) ==
  IF f.qi + 1 < Len(f.queries)
  THEN [f EXCEPT !.qi = @ + 2, !.results = << >>, !.ri = 0,
                 !.pending = << >>, !.final = << >>, !.steps = 0,
                 !.inv = [tool |-> "none", ctx |-> << >>, log |-> << >>],
                 !.pc = "agent"]
  ELSE [f EXCEPT !.pc = "ret"]

\* for (const query of queries): the next query, if any, starts
\* searchAndProcess (fresh pending/final lists, generateText awaited)
NextQuery(f) ==
  IF f.qi < Len(f.queries)
  THEN [f EXCEPT !.qi = @ + 1, !.results = << >>, !.ri = 0,
                 !.pending = << >>, !.final = << >>, !.steps = 0,
                 !.inv = NoInv, !.pc = "agent"]
  ELSE [f EXCEPT !.pc = "ret"]

\* a faulty variant of the result loop below (the last result is skipped)
NextResultOffByOne(f) ==
  IF f.ri + 1 < Len(f.results)
  THEN [f EXCEPT !.ri = @ + 1, !.pc = "learn"]
  ELSE NextQuery(f)

\* for (const searchResult of searchResults): the next result, if any, is
\* handed to generateLearnings; otherwise the query loop goes on
NextResult(f) ==
  IF f.ri < Len(f.results)
  THEN [f EXCEPT !.ri = @ + 1, !.pc = "learn"]
  ELSE NextQuery(f)

CurQuery(f) == f.queries[f.qi]


\* one more frame entered at nesting level k (the root frame is level 0)
CountFrame(h, k) ==
  [h EXCEPT !.frames = IF k <= Len(@) THEN [@ EXCEPT ![k] = @ + 1]
                       ELSE Append(@, 1)]

\* --------------------------------------------------- a tool run on its own
\* hooks and contexts a caller may register (new SearchResultEvalTool(config)
\* and the setters): two hooks, a static context, a provider whose
\* getContext() answers null or its own context
Hooks == {None, Some("hookA"), Some("hookB")}
StaticParams ==
  [query |-> QueryName(1, 1), pendingResult |-> Some([url |-> UrlName(1), oid |-> 1]),
   accumulatedSources |-> 1]
ProviderParams ==
  [query |-> QueryName(1, 2), pendingResult |-> Some([url |-> UrlName(2), oid |-> 2]),
   accumulatedSources |-> 1]
StaticContexts == {None, Some(StaticParams)}
Providers == {None, Some("provider")}
ProviderAnswers == {None, Some(ProviderParams)}

ToolConfigs ==
  [beforeExecute : Hooks, afterExecute : Hooks,
   staticContext : StaticContexts, contextProvider : Providers]

NoTool ==
  [beforeExecute |-> None, afterExecute |-> None,
   staticContext |-> None, contextProvider |-> None]

\* the hooks of a tool
Registered(t) ==
  [beforeExecute |-> t.beforeExecute, afterExecute |-> t.afterExecute]

\* asked: what the provider's getContext() answered in this invocation
\* (<< >>: it was not called); reg: the hooks that were registered when the
\* invocation had its context resolved (history, for the properties)
NewBench(t) ==
  [tool |-> t, pc |-> "idle", ctx |-> None, log |-> << >>, out |-> "none",
   asked |-> << >>, reg |-> Registered(NoTool)]

\* -------------------------------------------------------------------- Init
Init ==
  /\ mode \in {"single", "twice", "tool", "budget"}
  /\ impl \in IF mode \in {"single", "budget"} THEN Impls ELSE {"class"}
  /\ bench \in {NewBench(t) : t \in IF mode = "tool" THEN ToolConfigs ELSE {NoTool}}
  /\ heap = <<EmptyResearch>>          \* constructor: this.resetResearch()
  /\ acc = 1
  /\ runs = [r \in RunIds |-> NoRun]
  /\ stack = [r \in RunIds |-> << >>]
  /\ nSearch = 0
  /\ web = << >>
  /\ hist = [r \in RunIds |-> EmptyHist]
  /\ snap = None

NoneRunning == \A r \in RunIds : ~Running(r)
NextRun(r) ==
  /\ mode # "tool"
  /\ runs[r].status = "idle"
  /\ \A s \in RunIds : s < r => runs[s].status # "idle"
  /\ mode # "twice" => r = 1

\* a faulty variant of resetResearch below (the accumulator object is
\* emptied in place)
resetResearchInPlace ==
  /\ heap' = [heap EXCEPT ![acc] = EmptyResearch]
  /\ acc' = acc

\* resetResearch(): a fresh Research object with fresh lists
resetResearch ==
  /\ heap' = Append(heap, EmptyResearch)
  /\ acc' = Len(heap) + 1

\* conductResearch(prompt, depth?, breadth?) up to the call of deepResearch
conductResearch(r, prompt, depthArg, breadthArg) ==
  /\ resetResearch
  /\ LET researchDepth == Nullish(depthArg, DefaultDepth)
         researchBreadth == Nullish(breadthArg, DefaultBreadth)
     IN /\ runs' = [runs EXCEPT ![r] =
                      [status |-> "running", prompt |-> prompt,
                       depth |-> researchDepth, breadth |-> researchBreadth,
                       ret |-> 0, error |-> "none"]]
        /\ stack' = [stack EXCEPT ![r] =
                       <<NewFrame(prompt, researchDepth, researchBreadth)>>]
  /\ UNCHANGED <<bench, snap, mode, impl, nSearch, web, hist>>

\* conductResearch is called while no call is under way
ConductResearch(r, prompt, depthArg, breadthArg) ==
  /\ impl = "class"
  /\ NoneRunning /\ NextRun(r)
  /\ conductResearch(r, prompt, depthArg, breadthArg)

\* src/index.ts: the one top-level call deepResearch(prompt, depth = 2,
\* breadth = 2) on the module's accumulator, which is never reset
ScriptMain(prompt, depthArg, breadthArg) ==
  /\ impl = "script" /\ mode # "tool"
  /\ runs[1].status = "idle"
  /\ runs' = [runs EXCEPT ![1] =
                [status |-> "running", prompt |-> prompt,
                 depth |-> Nullish(depthArg, DefaultDepth),
                 breadth |-> Nullish(breadthArg, DefaultBreadth),
                 ret |-> 0, error |-> "none"]]
  /\ stack' = [stack EXCEPT ![1] =
                 <<NewFrame(prompt, Nullish(depthArg, DefaultDepth),
                            Nullish(breadthArg, DefaultBreadth))>>]
  /\ UNCHANGED <<bench, snap, mode, impl, heap, acc, nSearch, web, hist>>

\* ------------------------------------------------------------ deepResearch
\* a faulty variant of Catches below (a frame catches what its recursive
\* call rejects with)
CatchesChildFailure(f) == f.pc = "child"

\* Does frame f catch a rejection of the call it awaits?  deepResearch
\* awaits generateSearchQueries, searchAndProcess, generateLearnings and
\* its recursive call outside any try block.
Catches(f) == FALSE

\* the innermost frame of st that catches (0: none does)
Handler(st) ==
  LET hs == {i \in 1..Len(st) : Catches(st[i])}
  IN IF hs = {} THEN 0 ELSE CHOOSE i \in hs : \A j \in hs : j <= i

\* The call the innermost frame of run r awaits rejects with err: the
\* rejection leaves every frame that does not catch it, within the same
\* turn of the event loop; when none catches, the top-level call rejects.
Rejects(r, err) ==
  LET k == Handler(stack[r])
  IN IF k = 0
     THEN /\ stack' = [stack EXCEPT ![r] = << >>]
          /\ runs' = [runs EXCEPT ![r].status = "rejected", ![r].error = err]
     ELSE /\ stack' = [stack EXCEPT ![r] =
                 Append(SubSeq(@, 1, k - 1), NextResult(@[k]))]
          /\ UNCHANGED runs

\* if (!accumulatedResearch.query) accumulatedResearch.query = prompt
SetInitialQuery(h, a, prompt) ==
  IF Falsy(h[a].query) THEN [h EXCEPT ![a].query = Some(prompt)] ELSE h

\* the prologue of a frame: set the initial query, test the base case,
\* otherwise call generateSearchQueries
Entry(r) ==
  /\ At(r, "entry")
  /\ LET f == Top(r)
     IN /\ heap' = SetInitialQuery(heap, acc, f.prompt)
        /\ stack' = SetTop(r, [f EXCEPT !.pc = IF BaseCase(f.depth) THEN "ret" ELSE "gen"])
  /\ UNCHANGED <<bench, snap, mode, impl, acc, runs, nSearch, web, hist>>

\* class: this.accumulatedResearch.queries.push(...queries)
\* script: accumulatedResearch.queries = queries
StoreQueries(h, a, qs) ==
  IF impl = "class" THEN [h EXCEPT ![a].queries = @ \o qs]
  ELSE [h EXCEPT ![a].queries = qs]

\* the generation calls of run r so far, and this one
GenCalls(r) == Len(hist[r].gen) + 1

\* generateSearchQueries resolves with a schema-valid list
GenReturn(r, qs) ==
  /\ At(r, "gen")
  /\ qs \in QueryLists(GenCalls(r))
  /\ LET f == Top(r)
     IN /\ heap' = StoreQueries(heap, acc, qs)
        /\ stack' = SetTop(r, NextQuery([f EXCEPT !.queries = qs, !.qi = 0]))
        /\ hist' = [hist EXCEPT ![r].gen = Append(@, qs)]
  /\ UNCHANGED <<bench, snap, mode, impl, acc, runs, nSearch, web>>

\* generateSearchQueries rejects (provider failure, schema violation)
GenThrow(r) ==
  /\ At(r, "gen")
  /\ Rejects(r, "GenerationError")
  /\ UNCHANGED <<bench, snap, mode, impl, heap, acc, nSearch, web, hist>>

\* generateLearnings resolves: record the learning and the query, then
\* call deepResearch on the follow-up prompt
LearnReturn(r, L) ==
  /\ At(r, "learn")
  /\ LET f == Top(r)
         h1 == [heap EXCEPT ![acc].learnings = Append(@, L),
                            ![acc].completedQueries = Append(@, CurQuery(f))]
         followUpQuery == FollowUpQuery(f.prompt, h1[acc].completedQueries,
                                        L.followUpQuestions)
     IN /\ heap' = h1
        /\ stack' = [stack EXCEPT ![r] =
              Append([@ EXCEPT ![Len(@)] = [f EXCEPT !.pc = "child"]],
                     NewFrame(followUpQuery, ChildDepth(f.depth), HalveBreadth(f.breadth)))]
        /\ hist' = [hist EXCEPT ![r] =
              CountFrame([@ EXCEPT !.learn = Append(@, L),
                                   !.learnt = Append(@, [query |-> CurQuery(f),
                                                         result |-> f.results[f.ri]])],
                         Len(stack[r]))]
  /\ UNCHANGED <<bench, snap, mode, impl, acc, runs, nSearch, web>>

\* a faulty variant of LearnThrow below (the failure empties the
\* accumulator)
LearnThrowRollsBack(r) ==
  /\ At(r, "learn")
  /\ Rejects(r, "LearningError")
  /\ heap' = [heap EXCEPT ![acc] = EmptyResearch]
  /\ UNCHANGED <<bench, snap, mode, impl, acc, nSearch, web, hist>>

\* generateLearnings rejects
LearnThrow(r) ==
  /\ At(r, "learn")
  /\ Rejects(r, "LearningError")
  /\ UNCHANGED <<bench, snap, mode, impl, heap, acc, nSearch, web, hist>>

\* return accumulatedResearch: the awaiting caller resumes; the outermost
\* frame's caller (conductResearch, or the script's top level) gets the
\* accumulator
Return(r) ==
  /\ At(r, "ret")
  /\ IF Len(stack[r]) = 1
     THEN /\ stack' = [stack EXCEPT ![r] = << >>]
          /\ runs' = [runs EXCEPT ![r].status = "returned", ![r].ret = acc]
     ELSE /\ LET n == Len(stack[r])
                  caller == stack[r][n - 1]
              IN stack' = [stack EXCEPT ![r] =
                     Append(SubSeq(@, 1, n - 2), NextResult(caller))]
          /\ UNCHANGED runs
  /\ UNCHANGED <<bench, snap, mode, impl, heap, acc, nSearch, web, hist>>

\* -------------------------------------------------------- the tool wrapper
\* a faulty variant of getContext below (the static context comes first)
getContextStaticFirst(tool, provided) ==
  IF tool.staticContext # None THEN tool.staticContext ELSE provided

\* BaseAITool.getContext: the provider, when set, answers; else the static
\* context.  provided is what the provider's getContext() returns.
getContext(tool, provided) ==
  IF tool.contextProvider # None THEN provided ELSE tool.staticContext

\* the two tools searchAndProcess builds
SPSearchTool ==
  [beforeExecute |-> Some("logSearching"), afterExecute |-> Some("pushPending"),
   staticContext |-> None, contextProvider |-> None]

SPEvalTool ==
  [beforeExecute |-> Some("logEvaluating"), afterExecute |-> Some("retainIfRelevant"),
   staticContext |-> None, contextProvider |-> Some("popPending")]

\* contextProvider.getContext of searchAndProcess, on a pending list:
\* class : null when nothing is pending
\* script: always a context; pendingResult is pendingSearchResults.pop()!
ProvidedContext(f, a) ==
  IF f.pending = << >>
  THEN IF impl = "class" THEN None
       ELSE Some([query |-> CurQuery(f), pendingResult |-> None,
                  accumulatedSources |-> a])
  ELSE Some([query |-> CurQuery(f), pendingResult |-> Some(f.pending[Len(f.pending)]),
             accumulatedSources |-> a])

\* pendingSearchResults.pop()
PopPending(p) == IF p = << >> THEN p ELSE SubSeq(p, 1, Len(p) - 1)

\* the evaluation tool's beforeExecute hook of searchAndProcess reads
\* pendingResult.url: a TypeError when pendingResult is undefined
HookThrows(hook, params) ==
  hook = Some("logEvaluating") /\ params.pendingResult = None

\* a faulty variant of AfterEvaluate below (the classification is ignored)
AfterEvaluateAlways(hook, final, evaluation, params) ==
  IF hook = Some("retainIfRelevant") THEN final \o params.pendingResult ELSE final

\* finalSearchResults after the evaluation tool's afterExecute hook
AfterEvaluate(hook, final, evaluation, params) ==
  IF hook = Some("retainIfRelevant") /\ evaluation = "relevant"
  THEN final \o params.pendingResult
  ELSE final

\* a faulty variant of AfterSearch below (new documents go to the front)
AfterSearchFront(hook, pending, results) ==
  IF hook = Some("pushPending") THEN results \o pending ELSE pending

\* pendingSearchResults after the search tool's afterExecute hook
AfterSearch(hook, pending, results) ==
  IF hook = Some("pushPending") THEN pending \o results ELSE pending

Urls(results) == {results[i].url : i \in 1..Len(results)}

\* the classification generateObject may produce.  The prompt lists the
\* URLs of accumulatedSources and asks for "irrelevant" when the page is
\* among them; the completion is taken to follow that instruction.
Evaluations(params, h) ==
  IF params.pendingResult[1].url \in Urls(h[params.accumulatedSources].searchResults)
  THEN {"irrelevant"}
  ELSE {"relevant", "irrelevant"}

\* ------------------------------------------ BaseAITool: the setters, on bench
BenchSet(t) ==
  /\ mode = "tool"
  /\ bench' = [bench EXCEPT !.tool = t]
  /\ UNCHANGED pipeVars

onBeforeExecute(hook) ==
  hook # None /\ BenchSet([bench.tool EXCEPT !.beforeExecute = hook])
onAfterExecute(hook) ==
  hook # None /\ BenchSet([bench.tool EXCEPT !.afterExecute = hook])
setContext(context) ==
  context # None /\ BenchSet([bench.tool EXCEPT !.staticContext = context])
setContextProvider(provider) ==
  provider # None /\ BenchSet([bench.tool EXCEPT !.contextProvider = provider])
clearAllHooks ==
  BenchSet([bench.tool EXCEPT !.beforeExecute = None, !.afterExecute = None])
clearContext ==
  BenchSet([bench.tool EXCEPT !.staticContext = None, !.contextProvider = None])

\* ------------------------- SearchResultEvalTool execute, await by await
Event(ev, hook, params, result) ==
  [ev |-> ev, hook |-> hook, params |-> params, result |-> result]

\* a faulty variant of ExecuteThrows below (afterExecute runs on the way
\* out, as in a finally block)
ExecuteThrowsAfterHook(b, err) ==
  [b EXCEPT !.pc = "failed", !.out = err,
            !.log = Append(@, Event("after", b.tool.afterExecute, b.ctx, "none"))]

\* execute throws err: the invocation ends, no later statement of it runs
ExecuteThrows(b, err) == [b EXCEPT !.pc = "failed", !.out = err]

BenchStep(b) ==
  /\ mode = "tool"
  /\ bench' = b
  /\ UNCHANGED pipeVars

\* execute is called: this.getContext() is called and awaited (the provider
\* test, the provider's call and the read of the static context all happen
\* in the call, before the await)
Execute(provided) ==
  /\ bench.pc \in {"idle", "done", "failed"}
  /\ bench.tool.contextProvider = None => provided = None
  /\ LET context == getContext(bench.tool, provided)
     IN BenchStep([bench EXCEPT !.pc = "context", !.ctx = context,
                     !.log = <<Event("context", None, context, "none")>>,
                     !.out = "none",
                     !.asked = IF bench.tool.contextProvider # None
                               THEN <<provided>> ELSE << >>,
                     !.reg = Registered(NoTool)])

\* the context is there: the missing-context test, then beforeExecute, if
\* set by now, is called and awaited; else generateObject is
ContextResolved ==
  /\ bench.pc = "context"
  /\ BenchStep(
       IF bench.ctx = None THEN ExecuteThrows(bench, "MissingContext")
       ELSE IF bench.tool.beforeExecute # None
            THEN [bench EXCEPT !.pc = "before", !.reg = Registered(bench.tool),
                    !.log = Append(@, Event("before", bench.tool.beforeExecute,
                                            bench.ctx, "none"))]
            ELSE [bench EXCEPT !.pc = "call", !.reg = Registered(bench.tool),
                    !.log = Append(@, Event("call", None, bench.ctx, "none"))])

\* beforeExecute has resolved: generateObject is called and awaited
BeforeReturn ==
  /\ bench.pc = "before"
  /\ BenchStep([bench EXCEPT !.pc = "call",
                   !.log = Append(@, Event("call", None, bench.ctx, "none"))])

\* beforeExecute has thrown
BeforeThrow ==
  /\ bench.pc = "before"
  /\ BenchStep(ExecuteThrows(bench, "HookError"))

\* generateObject has resolved with evaluation: afterExecute, if set by
\* now, is called with it and awaited; else execute returns
EvaluationReturn(evaluation) ==
  /\ bench.pc = "call"
  /\ BenchStep(
       IF bench.tool.afterExecute # None
       THEN [bench EXCEPT !.pc = "after", !.out = evaluation,
               !.log = Append(@, Event("after", bench.tool.afterExecute,
                                       bench.ctx, evaluation))]
       ELSE [bench EXCEPT !.pc = "done", !.out = evaluation])

\* generateObject has rejected
EvaluationThrow ==
  /\ bench.pc = "call"
  /\ BenchStep(ExecuteThrows(bench, "EvaluationError"))

\* afterExecute has resolved: execute returns its message
AfterReturn ==
  /\ bench.pc = "after"
  /\ BenchStep([bench EXCEPT !.pc = "done"])

\* afterExecute has thrown
AfterThrow ==
  /\ bench.pc = "after"
  /\ BenchStep(ExecuteThrows(bench, "HookError"))

\* -------------------------------------------------------- searchAndProcess
\* searchAndProcess returns results to the frame: they are appended to the
\* accumulator and the result loop starts
SPResume(f, results) ==
  NextResult([f EXCEPT !.results = results, !.ri = 0, !.inv = NoInv,
                       !.pending = << >>, !.final = << >>, !.steps = 0])

SPReturns(r, f, results) ==
  /\ heap' = [heap EXCEPT ![acc].searchResults = @ \o results]
  /\ stack' = SetTop(r, SPResume(f, results))
  /\ hist' = [hist EXCEPT ![r].ret = Append(@, results),
                          ![r].retq = Append(@, CurQuery(f))]
  /\ UNCHANGED runs

\* is the rejection of generateText caught inside searchAndProcess?
\* class: try { await generateText(...) } catch (error) { log }
\* script: await generateText(...) with no handler
CatchesAgentError == impl = "class"

\* generateText rejects with err
SPRejects(r, f, err) ==
  IF CatchesAgentError
  THEN SPReturns(r, f, f.final)
  ELSE /\ Rejects(r, err)
       /\ UNCHANGED <<heap, hist>>

\* a faulty variant of StepDone below (the loop goes on whatever the count)
StepDoneUnbounded(r, f) ==
  /\ stack' = SetTop(r, [f EXCEPT !.pc = "agent", !.inv = NoInv])
  /\ UNCHANGED <<heap, hist, runs>>

\* a tool call has returned to the agent loop: the loop goes on while the
\* step budget lasts, else generateText resolves
StepDone(r, f) ==
  IF f.steps < maxSteps
  THEN /\ stack' = SetTop(r, [f EXCEPT !.pc = "agent", !.inv = NoInv])
       /\ UNCHANGED <<heap, hist, runs>>
  ELSE SPReturns(r, f, f.final)

\* the agent calls searchWeb: beforeExecute, then searchWeb(query) awaited
AgentSearch(r) ==
  /\ At(r, "agent")
  /\ Top(r).steps < maxSteps
  /\ mode = "budget" \/ nSearch < MaxSearch
  /\ LET f == Top(r)
         tool == SPSearchTool
         log == IF tool.beforeExecute # None THEN <<"before">> ELSE << >>
     IN stack' = SetTop(r, [f EXCEPT !.steps = @ + 1, !.pc = "search",
                   !.inv = [tool |-> "searchWeb", ctx |-> None,
                            log |-> log \o <<"call">>]])
  /\ nSearch' = IF mode = "budget" THEN nSearch ELSE nSearch + 1
  /\ UNCHANGED <<bench, snap, mode, impl, heap, acc, runs, web, hist>>

\* searchWeb resolves: afterExecute appends the results to the pending list
SearchReturn(r, results) ==
  /\ At(r, "search")
  /\ results \in SearchAnswers(web)
  /\ (mode = "budget" /\ Len(web) >= MaxSearch) => results = << >>
  /\ web' = web \o [i \in 1..Len(results) |-> results[i].url]
  /\ LET f == Top(r)
         tool == SPSearchTool
     IN StepDone(r, [f EXCEPT
          !.pending = AfterSearch(tool.afterExecute, @, results),
          !.inv.log = IF tool.afterExecute # None THEN @ \o <<"after">> ELSE @])
  /\ UNCHANGED <<bench, snap, mode, impl, acc, nSearch>>

\* searchWeb rejects
SearchThrow(r) ==
  /\ At(r, "search")
  /\ SPRejects(r, Top(r), "SearchError")
  /\ UNCHANGED <<bench, snap, mode, impl, acc, nSearch, web>>

\* SearchResultEvalTool execute, up to the classification call:
\* context, the missing-context test, beforeExecute, generateObject awaited.
\* The result: the invocation record, and whether execute threw.
EvalBegin(tool, provided) ==
  LET context == getContext(tool, provided)
  IN IF context = None
     THEN [tool |-> "evaluate", ctx |-> None, log |-> <<"context">>,
           threw |-> "MissingContext"]
     ELSE IF tool.beforeExecute # None
          THEN IF HookThrows(tool.beforeExecute, context[1])
               THEN [tool |-> "evaluate", ctx |-> context,
                     log |-> <<"context", "before">>, threw |-> "TypeError"]
               ELSE [tool |-> "evaluate", ctx |-> context,
                     log |-> <<"context", "before", "call">>, threw |-> "none"]
          ELSE [tool |-> "evaluate", ctx |-> context,
                log |-> <<"context", "call">>, threw |-> "none"]

InvOf(b) == [tool |-> b.tool, ctx |-> b.ctx, log |-> b.log]

\* the agent calls evaluate
AgentEvaluate(r) ==
  /\ At(r, "agent")
  /\ Top(r).steps < maxSteps
  /\ LET f == Top(r)
         tool == SPEvalTool
         b == EvalBegin(tool, ProvidedContext(f, acc))
         g == [f EXCEPT !.steps = @ + 1, !.inv = InvOf(b),
                 !.pending = IF tool.contextProvider # None THEN PopPending(@) ELSE @]
     IN IF b.threw = "none"
        THEN /\ stack' = SetTop(r, [g EXCEPT !.pc = "classify"])
             /\ UNCHANGED <<heap, hist, runs>>
        ELSE SPRejects(r, g, b.threw)
  /\ UNCHANGED <<bench, snap, mode, impl, acc, nSearch, web>>

\* a faulty variant of ClassifyReturn below (afterExecute pushes a relevant
\* candidate onto the accumulator's searchResults as well)
ClassifyReturnPushes(r, evaluation) ==
  /\ At(r, "classify")
  /\ LET f == Top(r)
         params == f.inv.ctx[1]
         g == [f EXCEPT !.final = AfterEvaluate(SPEvalTool.afterExecute, @,
                                                evaluation, params),
                        !.inv.log = @ \o <<"after">>]
         more == g.steps < maxSteps
     IN /\ evaluation \in Evaluations(params, heap)
        /\ stack' = SetTop(r, IF more THEN [g EXCEPT !.pc = "agent", !.inv = NoInv]
                               ELSE SPResume(g, g.final))
        /\ heap' = [heap EXCEPT ![acc].searchResults =
                      IF evaluation = "relevant" THEN @ \o params.pendingResult
                      ELSE @]
        /\ hist' = IF more THEN hist
                   ELSE [hist EXCEPT ![r].ret = Append(@, g.final),
                                     ![r].retq = Append(@, CurQuery(g))]
        /\ UNCHANGED runs
  /\ UNCHANGED <<bench, snap, mode, impl, acc, nSearch, web>>

\* the classification resolves: afterExecute retains a relevant candidate
ClassifyReturn(r, evaluation) ==
  /\ At(r, "classify")
  /\ LET f == Top(r)
         tool == SPEvalTool
         params == f.inv.ctx[1]
     IN /\ evaluation \in Evaluations(params, heap)
        /\ StepDone(r, [f EXCEPT
             !.final = AfterEvaluate(tool.afterExecute, @, evaluation, params),
             !.inv.log = IF tool.afterExecute # None THEN @ \o <<"after">> ELSE @])
  /\ UNCHANGED <<bench, snap, mode, impl, acc, nSearch, web>>

\* the classification rejects
ClassifyThrow(r) ==
  /\ At(r, "classify")
  /\ SPRejects(r, Top(r), "EvaluationError")
  /\ UNCHANGED <<bench, snap, mode, impl, acc, nSearch, web>>

\* the agent answers without a tool call: generateText resolves
AgentFinish(r) ==
  /\ At(r, "agent")
  /\ SPReturns(r, Top(r), Top(r).final)
  /\ UNCHANGED <<bench, snap, mode, impl, acc, nSearch, web>>

\* the completion behind the agent loop fails: generateText rejects
AgentThrow(r) ==
  /\ At(r, "agent")
  /\ SPRejects(r, Top(r), "AgentError")
  /\ UNCHANGED <<bench, snap, mode, impl, acc, nSearch, web>>

\* ------------------------------------------ the caller between two awaits
\* A call under way is suspended when its innermost frame awaits a
\* capability.  From the start of a call, or the return of a frame, to the
\* next await the code runs without yielding to the event loop, so
\* nothing else runs while a call is at "entry" or "ret".
AwaitPcs == {"gen", "agent", "search", "classify", "learn"}
Suspended(r) == Running(r) /\ stack[r] # << >> /\ Top(r).pc \in AwaitPcs
Quiet == \A r \in RunIds : Running(r) => Suspended(r)
Alone(r) == \A s \in RunIds \ {r} : Running(s) => Suspended(s)

\* conductResearch is called again while the first call is suspended
ConductResearchDuring(r, prompt, depthArg, breadthArg) ==
  /\ mode = "overlap" /\ impl = "class"
  /\ r = 2 /\ runs[r].status = "idle"
  /\ Suspended(1)
  /\ conductResearch(r, prompt, depthArg, breadthArg)

\* { ...this.accumulatedResearch }: a new object with the accumulator's
\* query and the accumulator's four list objects (lists: the Research
\* whose lists they are)
getResearchData == [query |-> heap[acc].query, lists |-> acc]

\* the Research a value got from getResearchData shows
Shown(s, h) ==
  [query |-> s.query, queries |-> h[s.lists].queries,
   searchResults |-> h[s.lists].searchResults,
   learnings |-> h[s.lists].learnings,
   completedQueries |-> h[s.lists].completedQueries]

\* the caller calls getResearchData() and keeps the value
GetResearchData ==
  /\ mode = "observe" /\ impl = "class"
  /\ snap = None
  /\ Quiet
  /\ snap' = Some(getResearchData)
  /\ UNCHANGED <<bench, mode, impl, heap, acc, runs, stack, nSearch, web, hist>>

\* -------------------------------------------------------------------- Next
Next ==
  \/ \E r \in RunIds, p \in Prompts, d \in DepthArgs, b \in BreadthArgs :
       ConductResearch(r, p, d, b)
  \/ \E p \in Prompts, d \in DepthArgs, b \in BreadthArgs : ScriptMain(p, d, b)
  \/ \E r \in RunIds : Entry(r)
  \/ \E r \in RunIds : \E qs \in QueryLists(GenCalls(r)) : GenReturn(r, qs)
  \/ \E r \in RunIds : GenThrow(r)
  \/ \E r \in RunIds : AgentSearch(r)
  \/ \E r \in RunIds, res \in SearchAnswers(web) : SearchReturn(r, res)
  \/ \E r \in RunIds : SearchThrow(r)
  \/ \E r \in RunIds : AgentEvaluate(r)
  \/ \E r \in RunIds, e \in {"relevant", "irrelevant"} : ClassifyReturn(r, e)
  \/ \E r \in RunIds : ClassifyThrow(r)
  \/ \E r \in RunIds : AgentFinish(r)
  \/ \E r \in RunIds : AgentThrow(r)
  \/ \E r \in RunIds, L \in LearningPool : LearnReturn(r, L)
  \/ \E r \in RunIds : LearnThrow(r)
  \/ \E r \in RunIds : Return(r)
  \/ \E h \in Hooks : onBeforeExecute(h)
  \/ \E h \in Hooks : onAfterExecute(h)
  \/ \E c \in StaticContexts : setContext(c)
  \/ \E c \in Providers : setContextProvider(c)
  \/ clearAllHooks
  \/ clearContext
  \/ \E c \in ProviderAnswers : Execute(c)
  \/ ContextResolved
  \/ BeforeReturn
  \/ BeforeThrow
  \/ \E e \in {"relevant", "irrelevant"} : EvaluationReturn(e)
  \/ EvaluationThrow
  \/ AfterReturn
  \/ AfterThrow

Spec == Init /\ [][Next]_vars

\* The class driven by a caller that does not wait for a call to settle:
\* it calls conductResearch a second time while the first call is
\* suspended, or reads getResearchData() at some point.
ClientPrompts == {<<"topic">>, <<"other">>}

InitClient ==
  /\ mode \in {"overlap", "observe"}
  /\ impl = "class"
  /\ bench = NewBench(NoTool)
  /\ heap = <<EmptyResearch>>
  /\ acc = 1
  /\ runs = [r \in RunIds |-> NoRun]
  /\ stack = [r \in RunIds |-> << >>]
  /\ nSearch = 0
  /\ web = << >>
  /\ hist = [r \in RunIds |-> EmptyHist]
  /\ snap = None

NextClient ==
  \/ \E p \in ClientPrompts, d \in DepthArgs : ConductResearch(1, p, d, None)
  \/ \E p \in ClientPrompts, d \in DepthArgs : ConductResearchDuring(2, p, d, None)
  \/ GetResearchData
  \/ \E r \in RunIds : Alone(r) /\ Entry(r)
  \/ \E r \in RunIds : \E qs \in QueryLists(GenCalls(r)) : Alone(r) /\ GenReturn(r, qs)
  \/ \E r \in RunIds : Alone(r) /\ GenThrow(r)
  \/ \E r \in RunIds : Alone(r) /\ AgentSearch(r)
  \/ \E r \in RunIds, res \in SearchAnswers(web) : Alone(r) /\ SearchReturn(r, res)
  \/ \E r \in RunIds : Alone(r) /\ SearchThrow(r)
  \/ \E r \in RunIds : Alone(r) /\ AgentEvaluate(r)
  \/ \E r \in RunIds, e \in {"relevant", "irrelevant"} : Alone(r) /\ ClassifyReturn(r, e)
  \/ \E r \in RunIds : Alone(r) /\ ClassifyThrow(r)
  \/ \E r \in RunIds : Alone(r) /\ AgentFinish(r)
  \/ \E r \in RunIds : Alone(r) /\ AgentThrow(r)
  \/ \E r \in RunIds, L \in LearningPool : Alone(r) /\ LearnReturn(r, L)
  \/ \E r \in RunIds : Alone(r) /\ LearnThrow(r)
  \/ \E r \in RunIds : Alone(r) /\ Return(r)

SpecClient == InitClient /\ [][NextClient]_vars


\* ------------------------------------------------------------------ claims
Frames(r) == {stack[r][i] : i \in 1..Len(stack[r])}
CapabilityErrors == {"GenerationError", "LearningError"}

\* C1 (safety part): every recursive frame has a depth strictly smaller
\* than its parent's, a frame whose depth is <= 0 never awaits a capability
\* (query generation in particular), and the nesting of recursive frames
\* never exceeds the initial depth.
DepthBounded ==
  \A r \in RunIds :
    /\ \A i \in 2..Len(stack[r]) : stack[r][i].depth < stack[r][i - 1].depth
    /\ \A f \in Frames(r) : f.depth <= 0 => f.pc \in {"entry", "ret"}
    /\ stack[r] # << >> => Len(stack[r]) - 1 <= Max(runs[r].depth, 0)
    /\ (impl = "class" /\ runs[r].status = "rejected")
         => runs[r].error \in CapabilityErrors

\* A rank of the states, for termination: a tuple of naturals that every
\* step makes lexicographically smaller.  Its first entry orders
\* the top-level calls still to be made, then whether one is running;
\* the next entries give, per nesting level, outermost first, the frame's
\* position: queries still to process, then results still to process, then
\* agent steps left.  An absent frame ranks above every present one.
QTop == SchemaMaxQueries + 1
RTop == 2 * ClassMaxSteps + 2
Pos(q, res, steps) == (q * (RTop + 1) + res) * (RTop + 1) + steps
AbsentRank == Pos(QTop + 2, 0, 0)

FrameRank(f) ==
  IF f.pc = "entry" THEN Pos(QTop + 1, 0, 0)
  ELSE IF f.pc = "gen" THEN Pos(QTop, 0, 0)
  ELSE IF f.pc = "ret" THEN 0
  ELSE IF f.pc = "agent"
    THEN Pos(Len(f.queries) - f.qi + 1, RTop, 2 * (maxSteps - f.steps))
  ELSE IF f.pc = "learn"
    THEN Pos(Len(f.queries) - f.qi + 1, 2 * (Len(f.results) - f.ri) + 1, 0)
  ELSE IF f.pc = "child"
    THEN Pos(Len(f.queries) - f.qi + 1, 2 * (Len(f.results) - f.ri), 0)
  ELSE Pos(Len(f.queries) - f.qi + 1, RTop, 2 * (maxSteps - f.steps) + 1)

MayStart(r) == runs[r].status = "idle" /\ (mode # "twice" => r = 1)

\* the rank's first entry for run r being the running one (0: none is)
HeadRank(r, left) == 2 * left + (IF r = 0 THEN 0 ELSE 1)

Rank ==
  LET r == IF runs[1].status = "running" THEN 1
           ELSE IF runs[2].status = "running" THEN 2 ELSE 0
      left == (IF MayStart(1) THEN 1 ELSE 0) + (IF MayStart(2) THEN 1 ELSE 0)
  IN [k \in 1..(MaxDepth + 2) |->
        IF k = 1 THEN HeadRank(r, left)
        ELSE IF r # 0 /\ k - 1 <= Len(stack[r]) THEN FrameRank(stack[r][k - 1])
        ELSE AbsentRank]

LexLess(x, y) ==
  \E k \in 1..Len(x) :
    /\ x[k] < y[k]
    /\ \A j \in 1..(k - 1) : x[j] = y[j]

\* the steps in which the awaited capability answers (none fails), or a
\* frame starts or returns
Answered ==
  \E r \in RunIds :
    \/ Entry(r) \/ Return(r) \/ AgentFinish(r)
    \/ \E qs \in QueryLists(GenCalls(r)) : GenReturn(r, qs)
    \/ SearchReturn(r, << >>)
    \/ ClassifyReturn(r, "irrelevant")
    \/ \E L \in LearningPool : LearnReturn(r, L)

\* C1: termination.  The recursion is depth-bounded in every state; every
\* step lowers the rank, so no behaviour takes infinitely many steps; and
\* while a top-level call is running a step is enabled in which the awaited
\* capability answers, so a behaviour can only come to rest when every call
\* made has returned or rejected.
C1_Termination ==
  /\ []DepthBounded
  /\ [][\E x \in {Rank'} : \E y \in {Rank} : LexLess(x, y)]_pipeVars
  /\ []((\E r \in RunIds : Running(r)) => ENABLED Answered)

\* a run of the largest depth has returned after descending to a frame of
\* depth 0 at that nesting level
C1_Witness ==
  \E r \in RunIds :
    /\ runs[r].status = "returned"
    /\ runs[r].depth = MaxDepth
    /\ Len(hist[r].frames) = MaxDepth


RECURSIVE Flatten(_)
Flatten(ss) == IF ss = << >> THEN << >> ELSE Head(ss) \o Flatten(Tail(ss))

\* C2: a call of deepResearch with depth <= 0 awaits no capability and
\* leaves queries, searchResults, learnings and completedQueries alone; it
\* may change query only when query was unset (undefined) on entry.
C2_BaseCaseFrame ==
  [][\A r \in RunIds :
       (At(r, "entry") /\ Top(r).depth <= 0) =>
         /\ acc' = acc
         /\ nSearch' = nSearch
         /\ stack' = SetTop(r, [Top(r) EXCEPT !.pc = "ret"])
         /\ heap'[acc].queries = heap[acc].queries
         /\ heap'[acc].searchResults = heap[acc].searchResults
         /\ heap'[acc].learnings = heap[acc].learnings
         /\ heap'[acc].completedQueries = heap[acc].completedQueries
         /\ heap'[acc].query # heap[acc].query => heap[acc].query = None]_vars

\* C3: once the first frame of a run has run its prologue, query is the
\* top-level prompt, and stays so to the end of the run and in the value
\* the run returns.
C3_OriginalQueryFixed ==
  \A r \in RunIds :
    /\ (Running(r) /\ stack[r][1].pc # "entry")
         => heap[acc].query = Some(runs[r].prompt)
    /\ runs[r].status = "returned"
         => heap[runs[r].ret].query = Some(runs[r].prompt)

\* C4: no error raised inside searchAndProcess (search capability,
\* classification, hook, agent loop) aborts the run: a run is rejected only
\* by a failure of query generation or learning extraction.
C4_SearchAndFilterContained ==
  \A r \in RunIds :
    runs[r].status = "rejected" => runs[r].error \in CapabilityErrors

\* C5: a failure of query generation or learning extraction, at any
\* nesting level, rejects the top-level call in that very step with that
\* error: every frame is left, no Research is returned, and from then on
\* nothing is appended to an accumulator unless a new top-level call starts.
C5_FailureAborts ==
  [][/\ \A r \in RunIds :
          ((At(r, "gen") \/ At(r, "learn")) /\ Len(stack'[r]) < Len(stack[r])) =>
             /\ stack'[r] = << >>
             /\ runs'[r].status = "rejected"
             /\ runs'[r].error = IF Top(r).pc = "gen" THEN "GenerationError"
                                 ELSE "LearningError"
             /\ runs'[r].ret = 0
             /\ heap' = heap /\ hist' = hist
     /\ \A r \in RunIds :
          runs[r].status = "rejected" =>
             /\ runs'[r] = runs[r] /\ stack'[r] = << >> /\ hist'[r] = hist[r]
     /\ (\A r \in RunIds : ~Running(r)) => SubSeq(heap', 1, Len(heap)) = heap]_vars

\* a run was rejected by a failure in a recursive frame (its root frame had
\* generated its queries and entered a child)
C5_Witness ==
  \E r \in RunIds :
    /\ runs[r].status = "rejected"
    /\ runs[r].error = "GenerationError"
    /\ hist[r].gen # << >>

HasDuplicate(seq) == \E i, j \in 1..Len(seq) : i < j /\ seq[i] = seq[j]
UrlsOf(results) == [i \in 1..Len(results) |-> results[i].url]

\* C6: no URL occurs twice among the sources a run returns
C6_NoDuplicateSources ==
  \A r \in RunIds :
    runs[r].status = "returned"
      => ~HasDuplicate(UrlsOf(heap[runs[r].ret].searchResults))

\* each searchAndProcess call's query, once per result the call returned
RECURSIVE Completed(_, _)
Completed(retq, ret) ==
  IF retq = << >> THEN << >>
  ELSE [i \in 1..Len(Head(ret)) |-> Head(retq)] \o Completed(Tail(retq), Tail(ret))

\* what run r alone produced, as a Research value
Produced(r) ==
  [query |-> Some(runs[r].prompt),
   queries |-> Flatten(hist[r].gen),
   searchResults |-> Flatten(hist[r].ret),
   learnings |-> hist[r].learn,
   completedQueries |-> SubSeq(Completed(hist[r].retq, hist[r].ret), 1,
                               Len(hist[r].learn))]

\* C7: the Research the second of two successive calls returns holds only
\* what the second run produced, and its query is the second prompt.
C7_SecondRunFresh ==
  (mode = "twice" /\ runs[2].status = "returned")
    => heap[runs[2].ret] = Produced(2)

\* C8: a run of depth 1 that returns: the sources are exactly the results
\* searchAndProcess returned, query by query; one learning per source; each
\* query is in completedQueries once per result retained for it, in order;
\* and only the root frame generated queries and searched (one generation,
\* one searchAndProcess call per generated query).
C8_DepthOneRun ==
  \A r \in RunIds :
    (runs[r].status = "returned" /\ runs[r].depth = 1) =>
      LET R == heap[runs[r].ret]
      IN /\ Len(hist[r].gen) = 1
         /\ R.queries = hist[r].gen[1]
         /\ hist[r].retq = R.queries
         /\ R.searchResults = Flatten(hist[r].ret)
         /\ Len(R.learnings) = Len(R.searchResults)
         /\ R.learnings = hist[r].learn
         /\ R.completedQueries = Completed(hist[r].retq, hist[r].ret)
         /\ Len(hist[r].frames) <= 1
         /\ hist[r].frames # << >> => hist[r].frames[1] = Len(R.searchResults)

\* a depth-1 run returned with two queries, the first with a retained
\* result and the second with none
C8_Witness ==
  \E r \in RunIds :
    /\ runs[r].status = "returned" /\ runs[r].depth = 1
    /\ Len(hist[r].ret) = 2
    /\ hist[r].ret[1] # << >> /\ hist[r].ret[2] = << >>
    /\ Len(heap[runs[r].ret].learnings) = 1

\* breadth * ceil(breadth/2) * ..., the breadth halved k times (the larger
\* reading of the bound: k + 1 factors)
RECURSIVE FanOutBound(_, _)
FanOutBound(breadth, k) ==
  IF k = 0 THEN breadth ELSE breadth * FanOutBound(HalveBreadth(breadth), k - 1)

\* C9: at most breadth * ceil(breadth/2) * ... frames at nesting level k
C9_FanOutBounded ==
  \A r \in RunIds :
    \A k \in 1..Len(hist[r].frames) :
      hist[r].frames[k] <= FanOutBound(runs[r].breadth, k)

EventsAt(ev) == {i \in 1..Len(bench.log) : bench.log[i].ev = ev}
Classes == {"relevant", "irrelevant"}

\* what an invocation of the evaluation tool has called so far is in order
BenchOrder ==
  bench.pc # "idle" =>
    /\ EventsAt("context") = {1}
    /\ bench.log[1].params = bench.ctx
    /\ bench.ctx = None =>
         /\ Len(bench.log) = 1
         /\ bench.pc \in {"context", "failed"}
         /\ bench.pc = "failed" => bench.out = "MissingContext"
    /\ \A ev \in {"before", "call", "after"} : Cardinality(EventsAt(ev)) <= 1
    /\ \A i \in EventsAt("before") :
         /\ \A j \in EventsAt("call") : i < j
         /\ bench.log[i].params = bench.ctx
    /\ bench.pc = "before" => EventsAt("call") = {}
    /\ \A j \in EventsAt("after") :
         /\ \E i \in EventsAt("call") : i < j
         /\ bench.log[j].params = bench.ctx
         /\ bench.log[j].result \in Classes
         /\ bench.pc \in {"after", "done"} => bench.log[j].result = bench.out
    /\ bench.out = "EvaluationError" => EventsAt("after") = {}

\* the hooks an invocation runs are the ones set when it reaches them
BenchHooks ==
  /\ (bench.pc = "context" /\ bench'.pc # "context") =>
        IF bench.ctx = None
        THEN bench'.pc = "failed" /\ bench'.log = bench.log
        ELSE IF bench.tool.beforeExecute # None
             THEN /\ bench'.pc = "before"
                  /\ bench'.log = Append(bench.log,
                        Event("before", bench.tool.beforeExecute, bench.ctx, "none"))
             ELSE bench'.pc = "call"
  /\ (bench.pc = "call" /\ bench'.pc # "call") =>
        \/ /\ bench'.pc = "failed" /\ bench'.out = "EvaluationError"
           /\ bench'.log = bench.log
        \/ /\ bench'.out \in Classes
           /\ IF bench.tool.afterExecute # None
              THEN /\ bench'.pc = "after"
                   /\ bench'.log = Append(bench.log,
                         Event("after", bench.tool.afterExecute, bench.ctx, bench'.out))
              ELSE bench'.pc = "done" /\ bench'.log = bench.log

\* inside searchAndProcess the classification is awaited only by an
\* invocation that resolved a context and ran its beforeExecute hook
PipelineOrder ==
  \A r \in RunIds : \A f \in Frames(r) :
    f.pc = "classify" =>
      /\ f.inv.ctx # None
      /\ f.inv.log = <<"context", "before", "call">>

\* C10: an invocation of the evaluation tool resolves its context first;
\* with no context it fails at once and calls neither hook nor the
\* classification; otherwise beforeExecute, if set, is called and has
\* completed before the classification starts, and afterExecute, if set, is
\* called after it with the classification and the same params; when the
\* classification throws, afterExecute is not called.
C10_InvocationOrder ==
  /\ []BenchOrder
  /\ []PipelineOrder
  /\ [][BenchHooks]_bench

\* an invocation has run both hooks around a "relevant" classification
C10_Witness ==
  /\ bench.pc = "done"
  /\ Len(bench.log) = 4
  /\ bench.log[2].ev = "before" /\ bench.log[4].ev = "after"
  /\ bench.log[4].result = "relevant"

\* C11: an invocation that starts while a provider is set resolves exactly
\* what the provider's getContext() answered, null included, whatever the
\* static context is; one that starts with no provider resolves the static
\* context; clearContext leaves neither, and an invocation that starts
\* then resolves no context.
C11_ContextPrecedence ==
  [][/\ (bench.pc # "context" /\ bench'.pc = "context") =>
          IF bench.tool.contextProvider # None
          THEN bench'.asked # << >> /\ bench'.ctx = bench'.asked[1]
          ELSE bench'.asked = << >> /\ bench'.ctx = bench.tool.staticContext
     /\ clearContext =>
          /\ bench'.tool.staticContext = None
          /\ bench'.tool.contextProvider = None
     /\ (bench.pc # "context" /\ bench'.pc = "context"
           /\ bench.tool.staticContext = None
           /\ bench.tool.contextProvider = None) => bench'.ctx = None]_bench

\* an invocation resolved the provider's null although a static context
\* was set
C11_Witness ==
  /\ bench.pc = "context"
  /\ bench.asked = <<None>>
  /\ bench.ctx = None
  /\ bench.tool.staticContext # None

\* C12: once an invocation has its context resolved, the setters do not
\* touch it: when the classification resolves, afterExecute runs if and
\* only if it was registered at that point, and it is that hook that runs;
\* the params are those of the context it resolved.
C12_InFlightUnaffected ==
  [][(bench.pc = "call" /\ bench'.pc \in {"after", "done"}) =>
        IF bench.reg.afterExecute # None
        THEN /\ bench'.pc = "after"
             /\ bench'.log[Len(bench'.log)].ev = "after"
             /\ bench'.log[Len(bench'.log)].hook = bench.reg.afterExecute
             /\ bench'.log[Len(bench'.log)].params = bench.ctx
        ELSE bench'.pc = "done" /\ bench'.log = bench.log]_bench

\* C13: when the agent calls evaluate while nothing is pending, no hook is
\* called with an undefined candidate, searchAndProcess returns the results
\* retained so far (nothing is added), and the run goes on.
C13_EmptyQueueAbsorbed ==
  [][\A r \in RunIds :
       (At(r, "agent") /\ Top(r).pending = << >> /\ AgentEvaluate(r)) =>
          LET b == EvalBegin(SPEvalTool, ProvidedContext(Top(r), acc))
          IN /\ \A i \in 1..Len(b.log) : b.log[i] # "before"
             /\ runs'[r].status = "running"
             /\ hist'[r].ret = Append(hist[r].ret, Top(r).final)
             /\ heap'[acc].searchResults =
                  heap[acc].searchResults \o Top(r).final]_pipeVars

Last(seq) == seq[Len(seq)]

\* frame f of a run has become g in a step (ret: what searchAndProcess
\* returned in the step, if it did): the loops advance one position at a
\* time, and a query is left only when all its results are done
LoopOrder(f, g, spRet) ==
  /\ f.pc # "gen" => g.queries = f.queries
  /\ g.qi \in {f.qi, f.qi + 1}
  /\ g.qi = f.qi + 1 =>
       /\ g.pc = "agent"
       /\ f.pc \in {"gen", "child", "agent", "search", "classify"}
       /\ f.pc = "child" => f.ri = Len(f.results)
       /\ f.pc \in {"agent", "search", "classify"} => spRet = <<<< >>>>
  /\ g.pc = "learn" =>
       /\ g.qi = f.qi /\ g.ri = f.ri + 1 /\ g.ri <= Len(g.results)
       /\ f.pc \in {"child", "agent", "search", "classify"}
       /\ f.pc = "child" => g.results = f.results
       /\ f.pc # "child" => spRet = <<g.results>>
  /\ g.pc = "ret" /\ f.pc \notin {"entry", "ret"} =>
       /\ f.qi = Len(f.queries)
       /\ f.pc = "child" => f.ri = Len(f.results)
       /\ f.pc # "child" => spRet = <<<< >>>>

\* what searchAndProcess returned to run r in this step, if it did
SPReturned(r) ==
  IF Len(hist'[r].ret) > Len(hist[r].ret) THEN <<Last(hist'[r].ret)>> ELSE << >>

\* only the innermost frame of a run awaits a capability; every other frame
\* awaits its recursive call
OneOutstanding ==
  \A r \in RunIds : \A i \in 1..(Len(stack[r]) - 1) : stack[r][i].pc = "child"

InSeq(x, seq) == \E i \in 1..Len(seq) : seq[i] = x

\* the accumulator run r is working on, or has returned
ResearchOf(r) == IF runs[r].status = "returned" THEN heap[runs[r].ret] ELSE heap[acc]

\* C15: while a run is under way and when it has returned,
\* completedQueries and learnings have the same length, at most that of
\* searchResults; the i-th completed query is the query generateLearnings
\* was called with for the i-th learning, and the searchAndProcess call for
\* that query retained the result it was called with;
\* every completed query is among queries; when the run has returned
\* there is a learning for every source.
C15_AccumulatorConsistent ==
  \A r \in RunIds :
    runs[r].status \in {"running", "returned"} =>
      LET R == ResearchOf(r)
      IN /\ Len(R.completedQueries) = Len(R.learnings)
         /\ Len(R.learnings) <= Len(R.searchResults)
         /\ R.learnings = hist[r].learn
         /\ Len(hist[r].learnt) = Len(R.learnings)
         /\ \A i \in 1..Len(R.completedQueries) :
              /\ InSeq(R.completedQueries[i], R.queries)
              /\ R.completedQueries[i] = hist[r].learnt[i].query
              /\ \E j \in 1..Len(hist[r].retq) :
                   /\ hist[r].retq[j] = R.completedQueries[i]
                   /\ InSeq(hist[r].learnt[i].result, hist[r].ret[j])
         /\ runs[r].status = "returned" =>
              Len(R.learnings) = Len(R.searchResults)

\* C16: queries is the concatenation, in the order the generation calls
\* returned, of every list generated in the run so far.
C16_QueriesAppendOnly ==
  \A r \in RunIds :
    runs[r].status \in {"running", "returned"} =>
      ResearchOf(r).queries = Flatten(hist[r].gen)

\* a frame inside searchAndProcess: the candidate under classification (a
\* list of at most one), and all documents the call holds
InSP(f) == f.pc \in {"agent", "search", "classify"}
Candidate(f) == IF f.pc = "classify" THEN f.inv.ctx[1].pendingResult ELSE << >>
Held(f) == f.pending \o Candidate(f) \o f.final
Oids(docs) == {docs[i].oid : i \in 1..Len(docs)}

\* a searchAndProcess call starts with nothing pending and nothing
\* retained, and never holds a document instance twice
HeldOnce ==
  \A r \in RunIds :
    (Running(r) /\ stack[r] # << >> /\ InSP(Top(r))) =>
      /\ Cardinality(Oids(Held(Top(r)))) = Len(Held(Top(r)))
      /\ \A i \in 1..Len(Held(Top(r))) : Held(Top(r))[i].oid <= Len(web)
      /\ (Top(r).pc = "agent" /\ Top(r).steps = 0) => Held(Top(r)) = << >>

\* a step of a searchAndProcess call: the retained list grows only by the
\* candidate under classification, and exactly when it is classified
\* "relevant"; what the call holds afterwards it held before or has just
\* been returned by search; what the call returns is the retained list
Retains(r) ==
  LET n == Len(stack[r])
      f == stack[r][n]
      ret == SPReturned(r)
      cont == /\ ret = << >> /\ Running(r)' /\ Len(stack'[r]) = n
              /\ InSP(stack'[r][n])
      final2 == IF ret # << >> THEN ret[1]
                ELSE IF cont THEN stack'[r][n].final ELSE f.final
  IN (Running(r) /\ n >= 1 /\ InSP(f) /\ (ret # << >> \/ cont)) =>
       /\ \A e \in Classes :
            ClassifyReturn(r, e) =>
              final2 = IF e = "relevant" THEN f.final \o Candidate(f) ELSE f.final
       /\ final2 # f.final => ClassifyReturn(r, "relevant")
       /\ cont =>
            Oids(Held(stack'[r][n])) \subseteq
              Oids(Held(f)) \cup ((Len(web) + 1)..Len(web'))

\* C17: within one searchAndProcess call the retained list is the sequence
\* of the candidates classified "relevant", in the order evaluated; every
\* retained result was returned by a search call of this call; no document
\* instance is evaluated twice.
C17_RetainedIffRelevant ==
  /\ []HeldOnce
  /\ [][\A r \in RunIds : Retains(r)]_pipeVars

\* a call evaluated two candidates and retained the second only
C17_Witness ==
  \E r \in RunIds :
    /\ At(r, "agent")
    /\ Top(r).pending = << >>
    /\ Len(Top(r).final) = 1 /\ Top(r).final[1].oid = 2
    /\ Len(web) = 2

\* the pending list is in discovery order, and the candidate under
\* classification was found after everything still pending
PendingInOrder ==
  \A r \in RunIds :
    (Running(r) /\ stack[r] # << >> /\ InSP(Top(r))) =>
      LET f == Top(r)
      IN /\ \A i, j \in 1..Len(f.pending) :
              i < j => f.pending[i].oid < f.pending[j].oid
         /\ \A i \in 1..Len(Candidate(f)) : \A j \in 1..Len(f.pending) :
              f.pending[j].oid < Candidate(f)[i].oid

\* search appends what it returned to the end of the pending list; an
\* evaluation takes the last pending document off the list
PendingSteps(r) ==
  LET f == Top(r)
      g == stack'[r][Len(stack[r])]
  IN /\ (At(r, "search") /\ At(r, "agent")' /\ SPReturned(r) = << >>) =>
          \E res \in SearchAnswers(web) :
             /\ g.pending = f.pending \o res
             /\ web' = web \o UrlsOf(res)
     /\ (At(r, "agent") /\ At(r, "classify")') =>
          /\ f.pending # << >>
          /\ Candidate(g) = <<Last(f.pending)>>
          /\ g.pending = SubSeq(f.pending, 1, Len(f.pending) - 1)

\* C18: pending candidates are taken most recent first: search appends to
\* the end of the pending list, evaluation removes and evaluates its last
\* element, so the candidate evaluated is the most recently found of those
\* pending.
C18_PendingLifo ==
  /\ []PendingInOrder
  /\ [][\A r \in RunIds : Running(r) => PendingSteps(r)]_pipeVars

\* the second of two documents found is under classification while the
\* first is still pending
C18_Witness ==
  \E r \in RunIds :
    /\ At(r, "classify")
    /\ Len(Top(r).pending) = 1
    /\ Top(r).pending[1].oid = 1
    /\ Candidate(Top(r))[1].oid = 2

\* C19: every recursive frame has its parent's depth minus 1 and the
\* ceiling of half its parent's breadth; when the initial breadth is >= 1
\* every frame's breadth is >= 1, and breadth never grows along the chain
\* of frames.
C19_ChildParameters ==
  \A r \in RunIds :
    /\ \A i \in 2..Len(stack[r]) :
         LET parent == stack[r][i - 1]
             child == stack[r][i]
         IN /\ child.depth = parent.depth - 1
            /\ 2 * child.breadth >= parent.breadth
            /\ 2 * (child.breadth - 1) < parent.breadth
            /\ child.breadth <= parent.breadth
    /\ (stack[r] # << >> /\ runs[r].breadth >= 1) =>
         /\ stack[r][1].breadth = runs[r].breadth
         /\ \A i \in 1..Len(stack[r]) : stack[r][i].breadth >= 1

\* frames of breadth 3, 2 and 1 are nested
C19_Witness ==
  \E r \in RunIds :
    /\ Len(stack[r]) = 3
    /\ stack[r][1].breadth = 3
    /\ stack[r][2].breadth = 2
    /\ stack[r][3].breadth = 1

\* the agent's tool calls stay within the step budget, the agent is asked
\* for a next step only while budget is left, and every retained result and
\* every pending document took its tool calls
WithinBudget ==
  \A r \in RunIds :
    (Running(r) /\ stack[r] # << >> /\ InSP(Top(r))) =>
      LET f == Top(r)
      IN /\ f.steps <= maxSteps
         /\ f.pc = "agent" => f.steps < maxSteps
         /\ f.pc # "agent" => f.steps >= 1
         /\ 2 * Len(f.final) + 2 * Len(Candidate(f)) + Len(f.pending) <= f.steps + 1

\* C20: a searchAndProcess call makes at most maxSteps tool calls (10 in
\* the class, 5 in the script), whatever the tools are and answer: the
\* step count grows with every tool call, and the tool call that uses up
\* the budget ends the call; the results retained for a query are fewer
\* than the tool calls made.
C20_StepBudget ==
  /\ []WithinBudget
  /\ [][\A r \in RunIds :
          (Running(r) /\ stack[r] # << >> /\ InSP(Top(r))) =>
             /\ (At(r, "agent")' /\ SPReturned(r) = << >>
                   /\ Len(stack'[r]) = Len(stack[r])) =>
                  Top(r)'.steps = Top(r).steps
             /\ (Top(r).pc = "agent" /\ Running(r)' /\ SPReturned(r) = << >>) =>
                  Top(r)'.steps = Top(r).steps + 1
             /\ (Top(r).pc # "agent" /\ Top(r).steps = maxSteps) =>
                  \/ ~Running(r)'
                  \/ /\ SPReturned(r) # << >>
                     /\ Len(SPReturned(r)[1]) < Top(r).steps]_pipeVars

\* the class's agent has made its tenth tool call in one searchAndProcess
\* call
C20_Witness ==
  \E r \in RunIds :
    /\ impl = "class"
    /\ Running(r) /\ stack[r] # << >> /\ InSP(Top(r))
    /\ Top(r).steps = ClassMaxSteps

\* C21: two overlapping calls on one instance: the Research each call
\* returns holds exactly what that call's own traversal produced (queries,
\* results, learnings, completed queries), and its query is that call's
\* own prompt.
C21_OverlapIsolated ==
  \A r \in RunIds :
    (mode = "overlap" /\ runs[2].status # "idle" /\ runs[r].status = "returned")
      => heap[runs[r].ret] = Produced(r)

\* the accumulated-source list an evaluation of frame f is given
SourcesSeen(f) == heap[f.inv.ctx[1].accumulatedSources].searchResults

\* the evaluation under way was given the accumulator's searchResults, and
\* nothing the call has retained so far is an element of that list
SourcesExcludeRetained ==
  \A r \in RunIds :
    At(r, "classify") =>
      /\ Top(r).inv.ctx[1].accumulatedSources = acc
      /\ Oids(SourcesSeen(Top(r))) \cap Oids(Top(r).final) = {}

\* a step of run r inside a searchAndProcess call: while the call goes on
\* the accumulator and its searchResults stay as they are; when the call
\* returns, what it returns is appended to searchResults
SourcesFixed(r) ==
  LET n == Len(stack[r])
      ret == SPReturned(r)
      cont == /\ ret = << >> /\ Running(r)' /\ Len(stack'[r]) = n
              /\ InSP(stack'[r][n])
  IN (Running(r) /\ n >= 1 /\ InSP(stack[r][n])) =>
       /\ acc' = acc
       /\ cont => heap'[acc].searchResults = heap[acc].searchResults
       /\ ret # << >> =>
            /\ ret[1] = stack[r][n].final \o
                          (IF ClassifyReturn(r, "relevant")
                           THEN Candidate(stack[r][n]) ELSE << >>)
            /\ heap'[acc].searchResults = heap[acc].searchResults \o ret[1]

\* C22: during one searchAndProcess call every evaluation is given the
\* accumulator's searchResults as they were when the call started: the
\* list does not change while the call goes on, the results the call has
\* retained are not in it, and they are appended only when the call
\* returns.
C22_SourcesFrozen ==
  /\ []SourcesExcludeRetained
  /\ [][\A r \in RunIds : SourcesFixed(r)]_pipeVars

\* a candidate is under evaluation whose URL the call has already retained
\* once, and the list the evaluation is given does not have that URL
C22_Witness ==
  \E r \in RunIds :
    /\ At(r, "classify")
    /\ Top(r).final # << >>
    /\ Candidate(Top(r))[1].url \in Urls(Top(r).final)
    /\ Candidate(Top(r))[1].url \notin Urls(SourcesSeen(Top(r)))

\* the Research objects returned so far
ReturnedObjects == {runs[r].ret : r \in {x \in RunIds : runs[x].status = "returned"}}

\* C23: a Research a completed call returned is not changed by a later
\* call: the later call's reset installs a new, empty object, the call
\* works on that object, and every step leaves the returned object's
\* query, queries, searchResults, learnings and completedQueries alone.
C23_ReturnedUntouched ==
  /\ []((\E r \in RunIds : Running(r)) => acc \notin ReturnedObjects)
  /\ [][/\ \A r \in RunIds :
            runs[r].status = "returned" =>
              /\ runs'[r] = runs[r]
              /\ heap'[runs[r].ret] = heap[runs[r].ret]
        /\ \A r \in RunIds :
            (~Running(r) /\ Running(r)' /\ impl = "class") =>
              /\ acc' = Len(heap) + 1
              /\ SubSeq(heap', 1, Len(heap)) = heap
              /\ heap'[acc'] = EmptyResearch]_pipeVars

\* a first call returned a Research with a source and a learning, and a
\* later call has since retained a source of its own
C23_Witness ==
  /\ runs[1].status = "returned"
  /\ heap[runs[1].ret].searchResults # << >>
  /\ heap[runs[1].ret].learnings # << >>
  /\ runs[2].status \in {"running", "returned"}
  /\ ResearchOf(2).searchResults # << >>
  /\ ResearchOf(2).searchResults # heap[runs[1].ret].searchResults

\* C24: a value got from getResearchData is a snapshot: no later step
\* changes the query, queries, searchResults, learnings or
\* completedQueries it shows.
C24_SnapshotStable ==
  [][snap # None => Shown(snap[1], heap') = Shown(snap[1], heap)]_vars

\* C25: no rollback on abort.  The step in which a failure of query
\* generation or learning extraction rejects a call leaves the accumulator
\* and everything in it as it was, so what getResearchData shows afterwards
\* is what had been appended before the failure; and the next call starts
\* on a new accumulator that is empty in every field.
C25_NoRollback ==
  [][\A r \in RunIds :
       /\ (Running(r) /\ runs'[r].status = "rejected"
             /\ runs'[r].error \in CapabilityErrors) =>
            /\ acc' = acc /\ heap' = heap
            /\ Shown(getResearchData, heap)' = Shown(getResearchData, heap)
       /\ (runs[r].status = "rejected" /\ impl = "class"
             /\ \E s \in RunIds : ~Running(s) /\ Running(s)') =>
            /\ heap'[acc'] = EmptyResearch
            /\ acc' \notin 1..Len(heap)
            /\ Shown(getResearchData, heap)' = EmptyResearch]_pipeVars

\* a call was rejected by a failure of learning extraction, leaving a
\* retained source without a learning in the accumulator
AbortedUnlearnt ==
  /\ impl = "class" /\ Len(heap) >= 2
  /\ runs[1].status = "rejected" /\ runs[1].error = "LearningError"
  /\ Len(heap[2].learnings) < Len(heap[2].searchResults)

\* ... and the next call, started on a new accumulator, has generated its
\* queries while the old accumulator still holds what the aborted call
\* left
C25_Witness ==
  /\ AbortedUnlearnt
  /\ Running(2) /\ acc = 3
  /\ heap[acc].queries # << >>
  /\ heap[acc].searchResults = << >>

====
